---- MODULE Spec2Model ----
(***************************************************************************)
(* Model of the BLE-Tutor lock controller: the debounced input monitor     *)
(* (InputHelper / ClassInputHelper) and the Lock state machine (Lock.h).   *)
(*                                                                         *)
(* Time is millis() in milliseconds.  Strings are sequences of non-zero    *)
(* bytes; the stored secret is the 20 byte flash buffer Secret::code,      *)
(* a function 0..SECRET_CODE_MAX_LENGTH-1 -> byte, with 0 the terminator.  *)
(***************************************************************************)
EXTENDS Integers, Sequences, FiniteSets, TLC

(* ------------------------------------------------------------------ *)
(* Program constants                                                    *)
(* ------------------------------------------------------------------ *)
MAX_PACKET_LENGTH == 20
SECRET_CODE_MAX_LENGTH == MAX_PACKET_LENGTH
MAX_UNLOCK_TIMES == 10
DEFAULT_UNLOCK_TIME_MS == 5000
SECRET_CODE_DELAY_MS == 5000
FULL_LOG_DURATION_MS == 2000
SETTLE_DELAY_MS == 10
BLINK_COUNT == 10
BLINK_ON_MS == 100
BLINK_OFF_MS == 200

\* enum LockState
Locked == 1
Unlocked == 2
ManuallyOverridden == Unlocked + 16
UpdateSecretCode == 32

\* "BLE-Tutor"
DEFAULT_SECRET_CODE == <<66, 76, 69, 45, 84, 117, 116, 111, 114>>

(* ------------------------------------------------------------------ *)
(* Bounds of the exploration                                            *)
(* ------------------------------------------------------------------ *)
\* time the sketch's loop() spends between two calls of Lock::poll()
LoopDelayMs == 2480
\* Spec: millis() never exceeds this
MaxTime == 10000
\* Spec: unlock events recorded in one behaviour
MaxUnlocks == 3
\* InputSpec: millis() never exceeds this (two timeouts of one input fit)
InputMaxTime == 22000
\* InputSpec: unlock events recorded in one behaviour
InputMaxUnlocks == 1
\* HistSpec: millis() never exceeds this
HistMaxTime == 5000
\* HistSpec: unlock events recorded in one behaviour (more than the ring holds)
HistMaxUnlocks == 12
\* the largest offset getUnlockTime is asked for
MaxOffset == 25
\* the auto-relock with loop() running for ever: polls are taken up to this
\* time, and past it for as long as the lock is open with the override low
RelockMaxTime == 12000
RelockMaxUnlocks == 2
\* the multi-purpose input's held durations: loop() with a period of 1000 ms
LogLoopDelayMs == 980
LogMaxTime == 9000
LogMaxUnlocks == 1

Level == {0, 1}

\* the two reads of one poll: any pair, and the pairs that agree
Reads == Level \X Level
Settled == {<<0, 0>>, <<1, 1>>}

\* a 20 byte candidate: as long as a BLE write can be
LONG_CODE == [i \in 1..MAX_PACKET_LENGTH |-> 88]
\* a new secret, "N"
NEW_CODE == <<78>>
\* the messages unlockWithMessage is called with
Candidates == {DEFAULT_SECRET_CODE, NEW_CODE, <<>>, LONG_CODE}

VARIABLES
    now,             \* millis()
    initialised,     \* Lock::initialise() has run (setup())
    secret_code,     \* FlashStorage(secret_code, Secret): the 20 bytes of Secret::code
    overridePin,     \* Lock::overridePin: [lastState, lastChangeMs, armed (timeout pending)]
    multipurposePin, \* Lock::multipurposePin: [lastState, lastChangeMs, armed]
    lockState,       \* Lock::lockState
    lastUnlocked,    \* Lock::lastUnlocked
    unlockIndex,     \* Lock::unlockIndex
    unlockTimes,     \* Lock::unlockTimes[MAX_UNLOCK_TIMES]
    lockedLed,       \* Lock::lockedLed
    unlockedLed,     \* Lock::unlockedLed
    events,          \* what the last operation did: handler and callback calls, reads, writes, result
    unlockLog,       \* history: the timestamps unlock() recorded, oldest first
    timeoutCount     \* history: timeout events of the multi-purpose input in its current stable interval

vars == <<now, initialised, secret_code, overridePin, multipurposePin, lockState,
          lastUnlocked, unlockIndex, unlockTimes, lockedLed, unlockedLed,
          events, unlockLog, timeoutCount>>

(* ------------------------------------------------------------------ *)
(* C arithmetic                                                         *)
(* ------------------------------------------------------------------ *)
\* x % m of C: the remainder has the sign of x
CMod(x, m) == IF x >= 0 THEN x % m ELSE 0 - ((0 - x) % m)

\* bit `bit` (a power of two) of x
HasBit(x, bit) == (x \div bit) % 2 = 1

\* x & mask for a one-bit mask
BitAnd(x, bit) == IF HasBit(x, bit) THEN bit ELSE 0

\* x | mask for a one-bit mask
BitOr(bit, x) == IF HasBit(x, bit) THEN x ELSE x + bit

(* ------------------------------------------------------------------ *)
(* Events of one operation                                              *)
(* ------------------------------------------------------------------ *)
Ev(kind, pin, val, dur, seenState, seenChange) ==
    [kind |-> kind, pin |-> pin, val |-> val, dur |-> dur,
     seenState |-> seenState, seenChange |-> seenChange]

\* the events of kind `kind` on `pin` in the last operation
EvOn(kind, pin) == {i \in 1..Len(events) : events[i].kind = kind /\ events[i].pin = pin}

(* ------------------------------------------------------------------ *)
(* Strings and the Secret buffer                                        *)
(* ------------------------------------------------------------------ *)
BufIndex == 0..(SECRET_CODE_MAX_LENGTH - 1)

\* the buffer holds a terminator
Terminated(code) == \E i \in BufIndex : code[i] = 0

\* byte i of the C string message, its terminator included
CharAt(message, i) == IF i < Len(message) THEN message[i + 1] ELSE 0

\* strcmp(message, secret.code) != 0 read as "equal": the classic slip
StrcmpTruthy(message, code, past) ==
    \E i \in 0..Len(message) :
        CharAt(message, i) # (IF i \in BufIndex THEN code[i] ELSE past)

\* strcmp(message, secret.code) == 0. The comparison runs to the first
\* difference or to message's terminator; when the buffer holds 20 bytes and
\* no terminator, it reads the byte behind the buffer, `past`, whose value the
\* program does not define.
StrcmpEqual(message, code, past) ==
    \A i \in 0..Len(message) :
        CharAt(message, i) = (IF i \in BufIndex THEN code[i] ELSE past)

\* the indices of secret.code that memcpy(secret.code, message, len) and
\* secret.code[len] = '\0' write, len = strlen(message)
SecretWrites(message) == 0..Len(message)

\* memcpy(secret.code, message, len); secret.code[len] = '\0'; the bytes of the
\* buffer afterwards. A write at index SECRET_CODE_MAX_LENGTH lands behind the
\* buffer and is not part of what secret_code.write() stores.
StoreSecret(code, message) ==
    LET len == Len(message)
    IN  [i \in BufIndex |-> IF i < len THEN message[i + 1]
                            ELSE IF i = len THEN 0 ELSE code[i]]

(* ------------------------------------------------------------------ *)
(* The Lock: state threaded through one operation                       *)
(*   S = [clock, lockState, lastUnlocked, unlockIndex, unlockTimes,     *)
(*        lockedLed, unlockedLed, secret, ev, log]                      *)
(* ------------------------------------------------------------------ *)
\* delay(ms)
Delay(S, ms) == [S EXCEPT !.clock = @ + ms]

isLocked(ls) == BitAnd(ls, Locked) # 0

InUpdateSecretMode(ls) == BitAnd(ls, UpdateSecretCode) # 0

updateLockState(S, newState) ==
    [S EXCEPT !.lockState = newState,
              !.ev = Append(@, Ev("stateCallback", "", newState, 0, 0, 0))]

\* the update flag survives the lock
lock_KeepsFlag(S) ==
    updateLockState(
        [S EXCEPT !.lastUnlocked = 0, !.unlockedLed = 0, !.lockedLed = 1],
        BitOr(Locked, BitAnd(S.lockState, UpdateSecretCode)))

\* the last-unlocked marker is left as it is
lock_KeepsMarker(S) ==
    updateLockState([S EXCEPT !.unlockedLed = 0, !.lockedLed = 1], Locked)

lock(S) ==
    updateLockState(
        [S EXCEPT !.lastUnlocked = 0, !.unlockedLed = 0, !.lockedLed = 1],
        Locked)

\* the increment is forgotten: every unlock overwrites the same slot
NextUnlockIndex_Stuck(i) == i

NextUnlockIndex(i) == (i + 1) % MAX_UNLOCK_TIMES

\* the locked output is left as it is
unlock_LeavesLockedLed(S, manualOverride) ==
    LET S1 == IF isLocked(S.lockState)
              THEN [S EXCEPT !.unlockIndex = NextUnlockIndex(@),
                             !.unlockTimes[NextUnlockIndex(S.unlockIndex)] = S.clock,
                             !.log = Append(@, S.clock)]
              ELSE S
    IN  updateLockState(
            [S1 EXCEPT !.lastUnlocked = S1.clock, !.unlockedLed = 1],
            IF manualOverride THEN ManuallyOverridden ELSE Unlocked)

\* every call records, also on an open lock
unlock_AlwaysRecords(S, manualOverride) ==
    LET S1 == [S EXCEPT !.unlockIndex = NextUnlockIndex(@),
                        !.unlockTimes[NextUnlockIndex(S.unlockIndex)] = S.clock,
                        !.log = Append(@, S.clock)]
    IN  updateLockState(
            [S1 EXCEPT !.lastUnlocked = S1.clock, !.unlockedLed = 1, !.lockedLed = 0],
            IF manualOverride THEN ManuallyOverridden ELSE Unlocked)

unlock(S, manualOverride) ==
    LET S1 == IF isLocked(S.lockState)
              THEN [S EXCEPT !.unlockIndex = NextUnlockIndex(@),
                             !.unlockTimes[NextUnlockIndex(S.unlockIndex)] = S.clock,
                             !.log = Append(@, S.clock)]
              ELSE S
    IN  updateLockState(
            [S1 EXCEPT !.lastUnlocked = S1.clock, !.unlockedLed = 1, !.lockedLed = 0],
            IF manualOverride THEN ManuallyOverridden ELSE Unlocked)

\* the index is taken forward instead of back
RingIndex_Forward(index, offset) == CMod(index + offset + MAX_UNLOCK_TIMES, MAX_UNLOCK_TIMES)

RingIndex(index, offset) == CMod(index - offset + MAX_UNLOCK_TIMES, MAX_UNLOCK_TIMES)

\* (unsigned int)index < MAX_UNLOCK_TIMES: a negative index is a huge unsigned one
getUnlockTimeOf(times, index, offset) ==
    LET i == RingIndex(index, offset)
    IN  IF i >= 0 /\ i < MAX_UNLOCK_TIMES THEN times[i] ELSE 0

getUnlockTime(offset) == getUnlockTimeOf(unlockTimes, unlockIndex, offset)

\* the override unlocks like a correct code does
manualOverrideHandler_PlainUnlock(S, pin, state, durationMs) ==
    IF state # 0
    THEN unlock(S, FALSE)
    ELSE [S EXCEPT !.lastUnlocked = S.clock]

\* the release leaves the last-unlocked marker alone
manualOverrideHandler_NoDefer(S, pin, state, durationMs) ==
    IF state # 0
    THEN unlock(S, TRUE)
    ELSE S

manualOverrideHandler(S, pin, state, durationMs) ==
    IF state # 0
    THEN unlock(S, TRUE)
    ELSE [S EXCEPT !.lastUnlocked = S.clock]

\* durationMs > FULL_LOG_DURATION_MS
mpPinPressed_StrictFull(S, pin, state, durationMs) ==
    IF state = 0
    THEN IF durationMs >= SECRET_CODE_DELAY_MS
         THEN S
         ELSE IF durationMs > FULL_LOG_DURATION_MS
              THEN [S EXCEPT !.ev = Append(@, Ev("logCallback", "", 1, 0, 0, 0))]
              ELSE [S EXCEPT !.ev = Append(@, Ev("logCallback", "", 0, 0, 0, 0))]
    ELSE S

mpPinPressed(S, pin, state, durationMs) ==
    IF state = 0
    THEN IF durationMs >= SECRET_CODE_DELAY_MS
         THEN S
         ELSE IF durationMs >= FULL_LOG_DURATION_MS
              THEN [S EXCEPT !.ev = Append(@, Ev("logCallback", "", 1, 0, 0, 0))]
              ELSE [S EXCEPT !.ev = Append(@, Ev("logCallback", "", 0, 0, 0, 0))]
    ELSE S

\* for (i = 0; i < 10; ++i) { lockedLed = !lockedLed; delay(lockedLed ? 100 : 200); }
RECURSIVE Blink(_, _)
Blink(S, i) ==
    IF i >= BLINK_COUNT
    THEN S
    ELSE LET led == IF S.lockedLed # 0 THEN 0 ELSE 1
         IN  Blink(Delay([S EXCEPT !.lockedLed = led],
                         IF led # 0 THEN BLINK_ON_MS ELSE BLINK_OFF_MS),
                   i + 1)

\* the flag replaces the state instead of being OR-ed onto it
mpPinTimeout_FlagOnly(S, pin, durationMs) ==
    IF durationMs >= SECRET_CODE_DELAY_MS
    THEN LET originalState == S.lockedLed
             S1 == Blink(S, 0)
         IN  updateLockState([S1 EXCEPT !.lockedLed = originalState], UpdateSecretCode)
    ELSE S

mpPinTimeout(S, pin, durationMs) ==
    IF durationMs >= SECRET_CODE_DELAY_MS
    THEN LET originalState == S.lockedLed
             S1 == Blink(S, 0)
         IN  updateLockState([S1 EXCEPT !.lockedLed = originalState],
                             BitOr(UpdateSecretCode, S1.lockState))
    ELSE S

(* ------------------------------------------------------------------ *)
(* The input monitors                                                   *)
(*   mon = [lastState, lastChangeMs, armed]                             *)
(* ------------------------------------------------------------------ *)
\* Lock::Lock: overridePin(override, this, &Lock::manualOverrideHandler, nullptr, 0L)
OverrideCfg ==
    [pin |-> "override", toggleMethod |-> "manualOverrideHandler",
     timeoutMethod |-> "nullptr", timeoutMs |-> 0]

\* Lock::Lock: multipurposePin(mpPin, this, &Lock::mpPinPressed, &Lock::mpPinTimeout, SECRET_CODE_DELAY_MS)
MpCfg ==
    [pin |-> "multipurpose", toggleMethod |-> "mpPinPressed",
     timeoutMethod |-> "mpPinTimeout", timeoutMs |-> SECRET_CODE_DELAY_MS]

\* the second read is ignored: a single flicker toggles
ToggleConfirmed_NoDebounce(a, b, lastState) == a # lastState

\* (a == b) && (a != lastState)
ToggleConfirmed(a, b, lastState) == (a = b) /\ (a # lastState)

\* the time of the poll is passed instead of the time since the last change
ToggleDuration_Absolute(currentTimeMs, lastChangeMs) == currentTimeMs

\* currentTimeMs - lastChangeMs
ToggleDuration(currentTimeMs, lastChangeMs) == currentTimeMs - lastChangeMs

\* ClassInputHelper::signalToggleCallback: (object->*toggleMethod)(pin, state, duration).
\* The event records the call and the monitor's fields as the handler finds them.
signalToggleCallback(cfg, S, mon, state, duration) ==
    IF cfg.toggleMethod # "nullptr"
    THEN LET S1 == [S EXCEPT !.ev = Append(@, Ev("toggle", cfg.pin, state, duration,
                                                  mon.lastState, mon.lastChangeMs))]
         IN  IF cfg.toggleMethod = "manualOverrideHandler"
             THEN manualOverrideHandler(S1, cfg.pin, state, duration)
             ELSE mpPinPressed(S1, cfg.pin, state, duration)
    ELSE S

\* ClassInputHelper::signalTimeoutCallback: (object->*timeoutMethod)(pin, duration)
signalTimeoutCallback(cfg, S, duration) ==
    IF cfg.timeoutMethod # "nullptr"
    THEN mpPinTimeout([S EXCEPT !.ev = Append(@, Ev("timeout", cfg.pin, 1, duration, 0, 0))],
                      cfg.pin, duration)
    ELSE S

\* the timeout fires on every poll of a high input that is past the duration
TimeoutDue_EveryPoll(cfg, mon, currentTimeMs) ==
    /\ mon.lastState # 0
    /\ currentTimeMs - mon.lastChangeMs >= cfg.timeoutMs

\* the stable state is high, no timeout has fired since it became high, and the
\* time since it became high has reached timeout_duration_ms
TimeoutDue(cfg, mon, currentTimeMs) ==
    /\ mon.lastState # 0
    /\ mon.armed
    /\ currentTimeMs - mon.lastChangeMs >= cfg.timeoutMs

\* Timeout evaluation of one poll, after the toggle detection
PollTimeout(cfg, mon, S, currentTimeMs) ==
    IF TimeoutDue(cfg, mon, currentTimeMs)
    THEN [mon |-> [mon EXCEPT !.armed = FALSE],
          S   |-> signalTimeoutCallback(cfg, S, currentTimeMs - mon.lastChangeMs)]
    ELSE [mon |-> mon, S |-> S]

\* InputHelper::poll with the two reads a and b of the pin
InputPoll(cfg, mon, a, b, S) ==
    LET currentTimeMs == S.clock
        S0 == [S EXCEPT !.ev = Append(@, Ev("read", cfg.pin, a, b, mon.lastState, currentTimeMs))]
        S1 == Delay(S0, SETTLE_DELAY_MS)
        toggled == ToggleConfirmed(a, b, mon.lastState)
        S2 == IF toggled
              THEN signalToggleCallback(cfg, S1, mon, a,
                                        ToggleDuration(currentTimeMs, mon.lastChangeMs))
              ELSE S1
        mon2 == IF toggled
                THEN [lastState |-> a, lastChangeMs |-> currentTimeMs, armed |-> (a # 0)]
                ELSE mon
    IN  PollTimeout(cfg, mon2, S2, currentTimeMs)

\* the override input is not looked at
RelockDue_IgnoreOverride(overrideState, S) ==
    /\ ~isLocked(S.lockState)
    /\ S.clock - S.lastUnlocked >= DEFAULT_UNLOCK_TIME_MS

\* delta > unlockedDurationMs
RelockDue_Strict(overrideState, S) ==
    /\ overrideState = 0 /\ ~isLocked(S.lockState)
    /\ S.clock - S.lastUnlocked > DEFAULT_UNLOCK_TIME_MS

\* if (!overridePin && !isLocked()) { delta = millis() - lastUnlocked;
\* if (delta >= unlockedDurationMs) ... }, unlockedDurationMs at its default
RelockDue(overrideState, S) ==
    /\ overrideState = 0 /\ ~isLocked(S.lockState)
    /\ S.clock - S.lastUnlocked >= DEFAULT_UNLOCK_TIME_MS

\* Lock::poll with the reads of both pins
LockPoll(S, mo, mm, ao, bo, am, bm) ==
    LET r1 == InputPoll(OverrideCfg, mo, ao, bo, S)
        r2 == InputPoll(MpCfg, mm, am, bm, r1.S)
        S2 == r2.S
        S3 == IF RelockDue(r1.mon.lastState, S2) THEN lock(S2) ELSE S2
    IN  [mo |-> r1.mon, mm |-> r2.mon, S |-> S3]

\* Lock::unlockWithMessage; `past` is the byte behind the local Secret
unlockWithMessage(S, message, past) ==
    LET S0 == [S EXCEPT !.ev = Append(@, Ev("unlockWithMessage", "", message, 0, 0, 0))]
        S1 == IF InUpdateSecretMode(S0.lockState)
              THEN [S0 EXCEPT !.secret = StoreSecret(@, message),
                              !.ev = Append(@, Ev("secretWrite", "", message, S.secret,
                                                  SecretWrites(message), 0))]
              ELSE IF isLocked(S0.lockState) /\ StrcmpEqual(message, S0.secret, past)
                   THEN unlock(S0, FALSE)
                   ELSE S0
    IN  [S1 EXCEPT !.ev = Append(@, Ev("return", "", IF isLocked(S1.lockState) THEN 0 ELSE 1,
                                       0, 0, 0))]

\* Lock::initialise: sprintf(secret.code, DEFAULT_SECRET_CODE) when the stored code is empty
initialise(code) ==
    IF code[0] = 0
    THEN [i \in BufIndex |-> IF i < Len(DEFAULT_SECRET_CODE) THEN DEFAULT_SECRET_CODE[i + 1]
                             ELSE IF i = Len(DEFAULT_SECRET_CODE) THEN 0 ELSE code[i]]
    ELSE code

(* ------------------------------------------------------------------ *)
(* The state machine                                                    *)
(* ------------------------------------------------------------------ *)
Machine ==
    [clock |-> now, lockState |-> lockState, lastUnlocked |-> lastUnlocked,
     unlockIndex |-> unlockIndex, unlockTimes |-> unlockTimes,
     lockedLed |-> lockedLed, unlockedLed |-> unlockedLed,
     secret |-> secret_code, ev |-> <<>>, log |-> unlockLog]

\* the Lock's fields and the flash after an operation that ends in S
Becomes(S) ==
    /\ now' = S.clock
    /\ lockState' = S.lockState
    /\ lastUnlocked' = S.lastUnlocked
    /\ unlockIndex' = S.unlockIndex
    /\ unlockTimes' = S.unlockTimes
    /\ lockedLed' = S.lockedLed
    /\ unlockedLed' = S.unlockedLed
    /\ secret_code' = S.secret
    /\ events' = S.ev
    /\ unlockLog' = S.log

\* the timeout events of pin among the events ev
TimeoutsIn(ev, pin) ==
    Cardinality({i \in 1..Len(ev) : ev[i].kind = "timeout" /\ ev[i].pin = pin})

\* Construction: erased flash, the inputs' stable states seeded from the pins
Init ==
    /\ now = 0
    /\ initialised = FALSE
    /\ secret_code = [i \in BufIndex |-> 0]
    /\ \E l \in Level : overridePin = [lastState |-> l, lastChangeMs |-> 0, armed |-> (l # 0)]
    /\ \E l \in Level : multipurposePin = [lastState |-> l, lastChangeMs |-> 0, armed |-> (l # 0)]
    /\ lockState = Locked
    /\ lastUnlocked = 0
    /\ unlockIndex = 0
    /\ unlockTimes = [i \in 0..(MAX_UNLOCK_TIMES - 1) |-> 0]
    /\ lockedLed = 1
    /\ unlockedLed = 0
    /\ events = <<>>
    /\ unlockLog = <<>>
    /\ timeoutCount = 0

\* setup(): Lock::initialise(). The operations below are those of loop() and
\* of the BLE handlers, which run after setup().
Initialise ==
    /\ ~initialised
    /\ initialised' = TRUE
    /\ secret_code' = initialise(secret_code)
    /\ events' = <<>>
    /\ UNCHANGED <<now, overridePin, multipurposePin, lockState, lastUnlocked, unlockIndex,
                   unlockTimes, lockedLed, unlockedLed, unlockLog, timeoutCount>>

\* loop(): the loop's delay, then Lock::poll(); the two reads of each pin are
\* drawn from readsO (override) and readsM (multi-purpose)
PollWith(delay, maxTime, maxUnlocks, readsO, readsM) ==
    /\ initialised
    /\ \E ro \in readsO, rm \in readsM :
         LET r == LockPoll([Machine EXCEPT !.clock = now + delay],
                           overridePin, multipurposePin, ro[1], ro[2], rm[1], rm[2])
         IN  /\ r.S.clock <= maxTime
             /\ Len(r.S.log) <= maxUnlocks
             /\ Becomes(r.S)
             /\ overridePin' = r.mo
             /\ multipurposePin' = r.mm
             /\ timeoutCount' = (IF r.mm.lastState # multipurposePin.lastState
                                 THEN 0 ELSE timeoutCount)
                                + TimeoutsIn(r.S.ev, MpCfg.pin)
    /\ UNCHANGED initialised

\* a BLE write of `message`: Lock::unlockWithMessage(message)
UnlockWith(message, maxUnlocks) ==
    /\ initialised
    /\ \E past \in {0, 1} :
         LET S == unlockWithMessage(Machine, message, past)
         IN  /\ Len(S.log) <= maxUnlocks
             /\ Becomes(S)
    /\ UNCHANGED <<initialised, overridePin, multipurposePin, timeoutCount>>

\* Lock::lock()
LockNow ==
    /\ initialised
    /\ Becomes(lock(Machine))
    /\ UNCHANGED <<initialised, overridePin, multipurposePin, timeoutCount>>

Poll == PollWith(LoopDelayMs, MaxTime, MaxUnlocks, Settled, Settled)

UnlockWithMessage == \E message \in Candidates : UnlockWith(message, MaxUnlocks)

Next == Initialise \/ Poll \/ UnlockWithMessage \/ LockNow

Spec == Init /\ [][Next]_vars

\* the monitors alone: only loop() runs, with any reads of both pins
InputPoll_Any == PollWith(LoopDelayMs, InputMaxTime, InputMaxUnlocks, Reads, Reads)

InputNext == Initialise \/ InputPoll_Any

InputSpec == Init /\ [][InputNext]_vars

\* the unlock history: correct codes, lock() and polls, past the ring's capacity
HistUnlock == UnlockWith(DEFAULT_SECRET_CODE, HistMaxUnlocks)

HistPoll == PollWith(LoopDelayMs, HistMaxTime, HistMaxUnlocks, Settled, {<<0, 0>>})

HistNext == Initialise \/ HistUnlock \/ LockNow \/ HistPoll

HistSpec == Init /\ [][HistNext]_vars

\* the multi-purpose button: loop() alone with a period of 1000 ms, any reads
\* of the button, settled reads of the override
LogPoll == PollWith(LogLoopDelayMs, LogMaxTime, LogMaxUnlocks, Settled, Reads)

LogNext == Initialise \/ LogPoll

LogSpec == Init /\ [][LogNext]_vars

\* the auto-relock: loop() never stops calling Lock::poll(). A poll past
\* RelockMaxTime is one of an open lock whose override input stays low.
RelockPoll ==
    /\ initialised
    /\ \E ro \in Settled, rm \in Settled :
         LET r == LockPoll([Machine EXCEPT !.clock = now + LoopDelayMs],
                           overridePin, multipurposePin, ro[1], ro[2], rm[1], rm[2])
         IN  /\ \/ r.S.clock <= RelockMaxTime
                \/ /\ ~isLocked(lockState)
                   /\ overridePin.lastState = 0
                   /\ ro = <<0, 0>>
             /\ Becomes(r.S)
             /\ overridePin' = r.mo
             /\ multipurposePin' = r.mm
             /\ timeoutCount' = (IF r.mm.lastState # multipurposePin.lastState
                                 THEN 0 ELSE timeoutCount)
                                + TimeoutsIn(r.S.ev, MpCfg.pin)
    /\ UNCHANGED initialised

RelockUnlock == UnlockWith(DEFAULT_SECRET_CODE, RelockMaxUnlocks)

RelockNext == Initialise \/ RelockPoll \/ RelockUnlock \/ LockNow

\* an open lock with the override low: RelockPoll is enabled, whatever the time
PollDue == initialised /\ ~isLocked(lockState) /\ overridePin.lastState = 0

\* setup() returns and loop() is called again and again: Lock::poll() is not
\* put off for ever while the lock is open with the override low, which is
\* weak fairness of RelockPoll in the states where the property needs it
RelockSpec ==
    /\ Init /\ [][RelockNext]_vars
    /\ WF_vars(Initialise)
    /\ ([]<>~PollDue \/ []<><<RelockPoll>>_vars)

(* ================================================================== *)
(* Claims                                                               *)
(* ================================================================== *)
\* the events of kind `kind` on `pin` among ev
On(ev, kind, pin) == {i \in 1..Len(ev) : ev[i].kind = kind /\ ev[i].pin = pin}

\* One step of a monitor, from mon to monNew with the events ev, keeps the
\* debounce rule: without a poll nothing changes; with a poll whose reads a, b
\* disagree or equal the stable state, the stable state and the last-change
\* time stay and no toggle event is emitted.
DebounceStep(pin, mon, monNew, ev) ==
    /\ Cardinality(On(ev, "read", pin)) <= 1
    /\ On(ev, "read", pin) = {} =>
         /\ monNew.lastState = mon.lastState
         /\ monNew.lastChangeMs = mon.lastChangeMs
         /\ On(ev, "toggle", pin) = {}
    /\ \A i \in On(ev, "read", pin) :
         LET a == ev[i].val
             b == ev[i].dur
         IN  \/ a = b /\ a # mon.lastState
             \/ /\ monNew.lastState = mon.lastState
                /\ monNew.lastChangeMs = mon.lastChangeMs
                /\ On(ev, "toggle", pin) = {}

\* C1: in every poll, and for both of the Lock's inputs, the stable state
\* changes only if the poll's two reads are equal to each other and differ
\* from the prior stable state; any other poll leaves the stable state and the
\* last-change time alone and emits no toggle event.
C1_Debounce ==
    [][ /\ DebounceStep(OverrideCfg.pin, overridePin, overridePin', events')
        /\ DebounceStep(MpCfg.pin, multipurposePin, multipurposePin', events') ]_vars

\* C1 witness: a poll read a single flicker on the multi-purpose input (first
\* read high, second low, stable state low) and the stable state stayed low.
C1_Witness ==
    /\ \E i \in EvOn("read", MpCfg.pin) :
         events[i].val = 1 /\ events[i].dur = 0 /\ events[i].seenState = 0
    /\ multipurposePin.lastState = 0
    /\ \E i \in EvOn("read", OverrideCfg.pin) :
         events[i].val = 1 /\ events[i].dur = 1 /\ events[i].seenState = 0
    /\ overridePin.lastState = 1

\* One step of a monitor delivers a confirmed toggle to its bound handler:
\* exactly one call, with the pin, the new state and the time from the old
\* last-change time to the new one; the handler finds the monitor's fields
\* not yet updated; after the poll the stable state is the new state.
ToggleStep(pin, mon, monNew, ev) ==
    \A i \in On(ev, "read", pin) :
        LET a == ev[i].val
            b == ev[i].dur
        IN  (a = b /\ a # mon.lastState) =>
              /\ Cardinality(On(ev, "toggle", pin)) = 1
              /\ \A j \in On(ev, "toggle", pin) :
                   /\ j > i
                   /\ ev[j].val = a
                   /\ ev[j].dur = monNew.lastChangeMs - mon.lastChangeMs
                   /\ ev[j].seenState = mon.lastState
                   /\ ev[j].seenChange = mon.lastChangeMs
              /\ monNew.lastState = a
              /\ monNew.lastChangeMs > mon.lastChangeMs

MpPolledAt == {events[i].seenChange : i \in EvOn("read", MpCfg.pin)}

Calls(ev) == {i \in 1..Len(ev) : ev[i].kind = "unlockWithMessage"}

\* unlockWithMessage returned `val` (1: true, 0: false)
Returned(ev, val) == \E i \in 1..Len(ev) : ev[i].kind = "return" /\ ev[i].val = val

\* the stored secret is byte-equal to the string c: the bytes of the buffer up
\* to its terminator, or all of them when it holds none
SecretIs(code, c) ==
    /\ Len(c) <= SECRET_CODE_MAX_LENGTH
    /\ \A i \in 0..(Len(c) - 1) : code[i] = c[i + 1]
    /\ Len(c) < SECRET_CODE_MAX_LENGTH => code[Len(c)] = 0

\* the step records exactly one new unlock, at the time `now` of the call
OneUnlockRecorded ==
    /\ unlockLog' = Append(unlockLog, now)
    /\ unlockIndex' = (unlockIndex + 1) % MAX_UNLOCK_TIMES
    /\ unlockTimes' = [unlockTimes EXCEPT ![(unlockIndex + 1) % MAX_UNLOCK_TIMES] = now]

\* C4: in state Locked with the update flag clear, unlockWithMessage(c) with
\* c byte-equal to the stored secret returns true, leaves the state Unlocked,
\* the unlocked output high, the locked output low, and exactly one new entry,
\* the current time, in the unlock history.
C4_CorrectCodeUnlocks ==
    [][ \A i \in Calls(events') :
          (lockState = Locked /\ SecretIs(secret_code, events'[i].val)) =>
            /\ Returned(events', 1)
            /\ lockState' = Unlocked
            /\ unlockedLed' = 1
            /\ lockedLed' = 0
            /\ OneUnlockRecorded ]_vars

\* C4 restricted to a stored secret that holds its terminator
C4_TerminatedSecret ==
    [][ \A i \in Calls(events') :
          (lockState = Locked /\ SecretIs(secret_code, events'[i].val)
             /\ Terminated(secret_code)) =>
            /\ Returned(events', 1)
            /\ lockState' = Unlocked
            /\ unlockedLed' = 1
            /\ lockedLed' = 0
            /\ OneUnlockRecorded ]_vars

\* C5: in state Locked with the update flag clear, unlockWithMessage(c) with
\* c different from the stored secret returns false, leaves the lock state,
\* both outputs, the unlock history and its index, the last-unlocked marker
\* and the stored secret unchanged, and calls no state-changed callback.
C5_WrongCodeRejected ==
    [][ \A i \in Calls(events') :
          (lockState = Locked /\ ~SecretIs(secret_code, events'[i].val)) =>
            /\ Returned(events', 0)
            /\ UNCHANGED <<lockState, lockedLed, unlockedLed, unlockTimes, unlockIndex,
                           unlockLog, lastUnlocked, secret_code>>
            /\ On(events', "stateCallback", "") = {} ]_vars

\* C5 witness: after the secret was replaced and the lock locked again, the
\* former secret "BLE-Tutor" has been tried on the Locked device and rejected.
C5_Witness ==
    /\ lockState = Locked
    /\ \E i \in Calls(events) : events[i].val = DEFAULT_SECRET_CODE
    /\ ~SecretIs(secret_code, DEFAULT_SECRET_CODE)
    /\ Returned(events, 0)

\* C6: with the update flag set, unlockWithMessage(c) stores c as the secret,
\* whatever the old secret is, and returns with the update flag clear.
C6_UpdateConsumesFlag ==
    [][ \A i \in Calls(events') :
          InUpdateSecretMode(lockState) =>
            /\ SecretIs(secret_code', events'[i].val)
            /\ ~InUpdateSecretMode(lockState') ]_vars

\* the last operation was an update-mode write of a string that differs from
\* the secret it replaced: the pairs <<new, old buffer>>
Replaced ==
    {<<events[i].val, events[i].dur>> :
        i \in {k \in 1..Len(events) : /\ events[k].kind = "secretWrite"
                                      /\ ~SecretIs(events[k].dur, events[k].val)}}

\* C7: after the update-mode write of NEW that followed the multi-purpose
\* timeout on a Locked device, the device being Locked, unlockWithMessage(NEW)
\* returns true and leaves the state Unlocked, and unlockWithMessage(old
\* secret) returns false and leaves it Locked.
C7_NewCodeUnlocks ==
    [][ \A r \in Replaced : \A i \in Calls(events') :
          isLocked(lockState) =>
            /\ events'[i].val = r[1] => (Returned(events', 1) /\ lockState' = Unlocked)
            /\ SecretIs(r[2], events'[i].val) =>
                 (Returned(events', 0) /\ isLocked(lockState')) ]_vars

\* C8: after a write in the update mode of a candidate of at most
\* MAX_PACKET_LENGTH bytes, every index written, the terminator's included,
\* is an index of the buffer, and the stored secret holds a terminator.
C8_WriteStaysInBuffer ==
    \A i \in 1..Len(events) :
        (events[i].kind = "secretWrite" /\ Len(events[i].val) <= MAX_PACKET_LENGTH) =>
          /\ events[i].seenState \subseteq BufIndex
          /\ Terminated(secret_code)

\* C9: once initialise() has run, the stored secret is never empty.
C9_SecretNeverEmpty == initialised => secret_code[0] # 0

\* the smaller of two numbers
Min(a, b) == IF a < b THEN a ELSE b

\* C10: after K >= 1 recorded unlocks, getUnlockTime(i) for
\* 0 <= i < min(K, MAX_UNLOCK_TIMES) is the time of the (K - i)-th recorded
\* unlock, also after the write index has wrapped.
C10_HistoryOrder ==
    LET K == Len(unlockLog)
    IN  \A i \in 0..(Min(K, MAX_UNLOCK_TIMES) - 1) : getUnlockTime(i) = unlockLog[K - i]

\* C10 witness: more unlocks than the ring holds were recorded, at more than
\* one time, so the oldest entries are overwritten; offset 0 is the latest and
\* offset MAX_UNLOCK_TIMES - 1 the oldest one kept.
C10_Witness ==
    LET K == Len(unlockLog)
    IN  /\ K > MAX_UNLOCK_TIMES
        /\ unlockLog[1] # unlockLog[K]
        /\ unlockLog[K - MAX_UNLOCK_TIMES + 1] # unlockLog[K]
        /\ getUnlockTime(0) = unlockLog[K]
        /\ getUnlockTime(MAX_UNLOCK_TIMES - 1) = unlockLog[K - MAX_UNLOCK_TIMES + 1]

\* C11: getUnlockTime(offset) is the zero sentinel for every offset >=
\* MAX_UNLOCK_TIMES and for every offset >= the number of unlocks recorded so
\* far, whatever the write index is.
C11_SentinelBeyondHistory ==
    \A offset \in 0..MaxOffset :
        (offset >= MAX_UNLOCK_TIMES \/ offset >= Len(unlockLog)) => getUnlockTime(offset) = 0

\* C11, the part that holds: the offsets from the number of recorded unlocks
\* up to MAX_UNLOCK_TIMES - 1 read 0.
C11_UnrecordedSlots ==
    \A offset \in 0..(MAX_UNLOCK_TIMES - 1) :
        offset >= Len(unlockLog) => getUnlockTime(offset) = 0

\* the override's confirmed toggles to `state` among ev
OverrideToggles(ev, state) ==
    {i \in On(ev, "toggle", OverrideCfg.pin) : ev[i].val = state}

\* the state-changed callbacks with Locked among ev: the calls of lock()
LockCalls(ev) == {i \in 1..Len(ev) : ev[i].kind = "stateCallback" /\ ev[i].val = Locked}

\* the lock state without the update flag
Base(ls) == IF InUpdateSecretMode(ls) THEN ls - UpdateSecretCode ELSE ls

\* the step appends exactly one entry, of a time in now..now', to the history
OneEntryAppended ==
    /\ Len(unlockLog') = Len(unlockLog) + 1
    /\ SubSeq(unlockLog', 1, Len(unlockLog)) = unlockLog
    /\ unlockLog'[Len(unlockLog')] >= now
    /\ unlockLog'[Len(unlockLog')] <= now'
    /\ unlockIndex' = (unlockIndex + 1) % MAX_UNLOCK_TIMES
    /\ unlockTimes' = [unlockTimes EXCEPT ![unlockIndex'] = unlockLog'[Len(unlockLog')]]

\* C12: when the override's confirmed toggle to asserted is handled while
\* the state is Locked, the handler makes the state ManuallyOverridden, and
\* the poll ends not Locked, with the base state ManuallyOverridden, the
\* unlocked output high, the locked output low and exactly one entry
\* appended to the unlock history.
C12_OverrideUnlocks ==
    [][ \A j \in OverrideToggles(events', 1) :
          isLocked(lockState) =>
            /\ j < Len(events')
            /\ events'[j + 1].kind = "stateCallback"
            /\ events'[j + 1].val = ManuallyOverridden
            /\ Base(lockState') = ManuallyOverridden
            /\ unlockedLed' = 1
            /\ lockedLed' = 0
            /\ OneEntryAppended ]_vars

\* C12 witness: the override was asserted on a Locked device that already had
\* an unlock in its history; the state is ManuallyOverridden.
C12_Witness ==
    /\ OverrideToggles(events, 1) # {}
    /\ lockState = ManuallyOverridden
    /\ Len(unlockLog) >= 2
    /\ lastUnlocked = unlockLog[Len(unlockLog)]

\* C13: a poll that ends with the override's stable state asserted does not
\* lock: a state that is not Locked before it is not Locked after it, and
\* lock() is not called.
C13_OverridePins ==
    [][ (On(events', "read", OverrideCfg.pin) # {} /\ overridePin'.lastState = 1) =>
          /\ LockCalls(events') = {}
          /\ ~isLocked(lockState) => ~isLocked(lockState') ]_vars

\* C13 witness: a poll ended with the override asserted and the state not
\* Locked although the last unlock was DEFAULT_UNLOCK_TIME_MS or more ago.
C13_Witness ==
    /\ On(events, "read", OverrideCfg.pin) # {}
    /\ overridePin.lastState = 1
    /\ ~isLocked(lockState)
    /\ now - lastUnlocked >= DEFAULT_UNLOCK_TIME_MS

\* C15: in one Lock::poll() the override input is read and handled first, the
\* multi-purpose input second, and the re-lock check comes last; a poll that
\* confirms an override release does not lock.
C15_TickOrder ==
    [][ \A o \in On(events', "read", OverrideCfg.pin) :
          /\ o = 1
          /\ \E m \in On(events', "read", MpCfg.pin) :
               /\ \A i \in On(events', "toggle", OverrideCfg.pin) : i < m
               /\ \A i \in On(events', "toggle", MpCfg.pin) \cup On(events', "timeout", MpCfg.pin) :
                    i > m
          /\ \A i \in LockCalls(events') : i = Len(events')
          /\ OverrideToggles(events', 0) # {} =>
               /\ LockCalls(events') = {}
               /\ isLocked(lockState') = isLocked(lockState) ]_vars

\* C15 witness: one poll confirmed an override release after the override had
\* been held, and the last unlock had been recorded, DEFAULT_UNLOCK_TIME_MS or
\* more before, ran the multi-purpose timeout handler with its blinking, and
\* left the lock not Locked.
C15_Witness ==
    /\ \E i \in OverrideToggles(events, 0) : events[i].dur >= DEFAULT_UNLOCK_TIME_MS
    /\ On(events, "timeout", MpCfg.pin) # {}
    /\ unlockLog # <<>>
    /\ now - unlockLog[Len(unlockLog)] >= DEFAULT_UNLOCK_TIME_MS
    /\ ~isLocked(lockState)
    /\ InUpdateSecretMode(lockState)

\* the time at which a handler of the override input runs in the poll whose
\* events are ev: the time of the input's poll plus the settle delay
OverrideHandledAt(ev) == ev[1].seenChange + SETTLE_DELAY_MS

\* C14: Lock::poll() calls lock() if and only if, after both inputs were
\* polled, the override input is low, the state is not Locked and the time
\* since lastUnlocked (the release handler's time when the poll confirmed a
\* release) is DEFAULT_UNLOCK_TIME_MS or more. A poll that confirms a release
\* sets lastUnlocked to the handler's time and does not lock; a poll that
\* locks is DEFAULT_UNLOCK_TIME_MS or more after the latest recorded unlock
\* and after the latest release. With the override low and the loop running,
\* an open lock is eventually Locked.
C14_AutoRelock ==
    /\ [][ On(events', "read", OverrideCfg.pin) # {} =>
             LET released == OverrideToggles(events', 0) # {}
                 since == IF released THEN OverrideHandledAt(events') ELSE lastUnlocked
             IN  /\ LockCalls(events') # {} <=>
                      /\ overridePin'.lastState = 0
                      /\ ~isLocked(lockState)
                      /\ now' - since >= DEFAULT_UNLOCK_TIME_MS
                 /\ released => /\ LockCalls(events') = {}
                                /\ lastUnlocked' = since
                 /\ LockCalls(events') # {} =>
                      /\ isLocked(lockState') /\ lastUnlocked' = 0
                      /\ unlockLog # <<>>
                      /\ now' - unlockLog[Len(unlockLog)] >= DEFAULT_UNLOCK_TIME_MS
                      /\ overridePin'.lastChangeMs > 0 =>
                           now' - (overridePin'.lastChangeMs + SETTLE_DELAY_MS)
                             >= DEFAULT_UNLOCK_TIME_MS ]_vars
    /\ []( (initialised /\ ~isLocked(lockState) /\ overridePin.lastState = 0)
             => <>(isLocked(lockState) \/ overridePin.lastState # 0) )

\* C14 witness: a poll locked the device exactly DEFAULT_UNLOCK_TIME_MS after
\* the unlock.
C14_Witness ==
    /\ On(events, "read", OverrideCfg.pin) # {}
    /\ LockCalls(events) # {}
    /\ isLocked(lockState)
    /\ overridePin.lastState = 0
    /\ unlockLog # <<>>
    /\ now - unlockLog[Len(unlockLog)] = DEFAULT_UNLOCK_TIME_MS

\* a poll locked the device DEFAULT_UNLOCK_TIME_MS or more after an override
\* release
C14_RelockAfterRelease ==
    /\ On(events, "read", OverrideCfg.pin) # {}
    /\ LockCalls(events) # {}
    /\ overridePin.lastState = 0
    /\ overridePin.lastChangeMs > 0
    /\ unlockLog # <<>>
    /\ overridePin.lastChangeMs > unlockLog[Len(unlockLog)]

\* the log requests among ev
LogCalls(ev) == {i \in 1..Len(ev) : ev[i].kind = "logCallback"}

\* C16: a confirmed release of the multi-purpose input held for d requests
\* one brief log when d < FULL_LOG_DURATION_MS, one full log when
\* FULL_LOG_DURATION_MS <= d < SECRET_CODE_DELAY_MS and no log when
\* d >= SECRET_CODE_DELAY_MS; a press requests no log, no log is requested
\* without a release, and the handler does not change the lock state: the
\* state after the poll is the one the override's handler and the re-lock
\* check leave.
C16_ReleaseClassified ==
    [][ /\ \A i \in On(events', "toggle", MpCfg.pin) :
             LET d == events'[i].dur
                 logs == LogCalls(events')
             IN  /\ (events'[i].val = 0 /\ d < FULL_LOG_DURATION_MS) =>
                        logs = {i + 1} /\ events'[i + 1].val = 0
                 /\ (events'[i].val = 0 /\ d >= FULL_LOG_DURATION_MS
                                        /\ d < SECRET_CODE_DELAY_MS) =>
                        logs = {i + 1} /\ events'[i + 1].val = 1
                 /\ (events'[i].val = 0 /\ d >= SECRET_CODE_DELAY_MS) => logs = {}
                 /\ events'[i].val # 0 => logs = {}
                 /\ \A j \in (i + 1)..Len(events') :
                        events'[j].kind = "stateCallback" =>
                            j = Len(events') /\ events'[j].val = Locked
                 /\ lockState' = IF LockCalls(events') # {} THEN Locked
                                 ELSE IF OverrideToggles(events', 1) # {}
                                      THEN ManuallyOverridden
                                      ELSE lockState
        /\ LogCalls(events') # {} =>
             \E i \in On(events', "toggle", MpCfg.pin) : events'[i].val = 0 ]_vars

\* C16 witness: a release after exactly FULL_LOG_DURATION_MS requested the
\* full log, with the lock open.
C16_Witness ==
    /\ \E i \in On(events, "toggle", MpCfg.pin) :
         /\ events[i].val = 0
         /\ events[i].dur = FULL_LOG_DURATION_MS
         /\ i < Len(events)
         /\ events[i + 1].kind = "logCallback"
         /\ events[i + 1].val = 1
    /\ ~isLocked(lockState)

\* a release after exactly SECRET_CODE_DELAY_MS requested nothing
C16_LongRelease ==
    \E i \in On(events, "toggle", MpCfg.pin) :
        /\ events[i].val = 0
        /\ events[i].dur = SECRET_CODE_DELAY_MS
        /\ LogCalls(events) = {}

\* a release short of FULL_LOG_DURATION_MS requested the brief log
C16_ShortRelease ==
    \E i \in On(events, "toggle", MpCfg.pin) :
        /\ events[i].val = 0
        /\ events[i].dur = FULL_LOG_DURATION_MS - 1000
        /\ LogCalls(events) = {i + 1}
        /\ events[i + 1].val = 0

\* the lock state in force just before event j of the operation whose events
\* are ev and which started in state ls
StateBefore(ev, j, ls) ==
    LET prev == {k \in 1..(j - 1) : ev[k].kind = "stateCallback"}
    IN  IF prev = {} THEN ls
        ELSE ev[CHOOSE k \in prev : \A l \in prev : l <= k].val

\* C17: the update flag is set only by the multi-purpose timeout handler:
\* every state change to a state with the flag comes right after a timeout
\* call on the multi-purpose input, whose stable state was high before the
\* poll and since SECRET_CODE_DELAY_MS or more, and it is the state just before
\* it with the flag OR-ed on, the base state unchanged; a step that ends with
\* the flag set from a state without it contains such a call.
C17_FlagOnlyByTimeout ==
    [][ /\ \A j \in 1..Len(events') :
             (events'[j].kind = "stateCallback" /\ InUpdateSecretMode(events'[j].val)) =>
                 LET before == StateBefore(events', j, lockState)
                 IN  /\ j - 1 \in On(events', "timeout", MpCfg.pin)
                     /\ events'[j - 1].dur >= SECRET_CODE_DELAY_MS
                     /\ multipurposePin.lastState = 1
                     /\ multipurposePin'.lastState = 1
                     /\ \A m \in On(events', "read", MpCfg.pin) :
                          events'[m].seenChange - multipurposePin.lastChangeMs
                            = events'[j - 1].dur
                     /\ events'[j].val = BitOr(UpdateSecretCode, before)
                     /\ Base(events'[j].val) = Base(before)
                     /\ Base(events'[j].val) \in {Locked, Unlocked, ManuallyOverridden}
        /\ (InUpdateSecretMode(lockState') /\ ~InUpdateSecretMode(lockState)) =>
             \E j \in 1..Len(events') :
                 /\ events'[j].kind = "stateCallback"
                 /\ InUpdateSecretMode(events'[j].val)
        /\ InUpdateSecretMode(lockState') =>
             \/ lockState' = lockState
             \/ events' # <<>> /\ events'[Len(events')].kind = "stateCallback"
                               /\ events'[Len(events')].val = lockState' ]_vars

\* C17 witness: the timeout handler has just set the flag on a lock that the
\* override had opened: the state is ManuallyOverridden with the flag.
C17_Witness ==
    /\ On(events, "timeout", MpCfg.pin) # {}
    /\ lockState = BitOr(UpdateSecretCode, ManuallyOverridden)
    /\ multipurposePin.lastState = 1

\* the flag is set on a Locked device
C17_FlagWhileLocked ==
    /\ On(events, "timeout", MpCfg.pin) # {}
    /\ lockState = BitOr(UpdateSecretCode, Locked)

\* the events of a call of lock() on its own
LockOnly == <<Ev("stateCallback", "", Locked, 0, 0, 0)>>

\* C18: a call of lock(), from any state, leaves the state Locked, the
\* last-unlocked marker 0, the locked output high and the unlocked output low,
\* and leaves the unlock history, its index and the stored secret as they
\* were; and in every reachable state lock() after lock() gives the same Lock
\* as lock() alone.
C18_LockResets ==
    /\ [][ events' = LockOnly =>
             /\ lockState' = Locked
             /\ lastUnlocked' = 0
             /\ lockedLed' = 1
             /\ unlockedLed' = 0
             /\ UNCHANGED <<unlockTimes, unlockIndex, unlockLog, secret_code, now,
                            overridePin, multipurposePin>> ]_vars
    /\ [](LET once == [lock(Machine) EXCEPT !.ev = <<>>]
          IN  /\ [lock(once) EXCEPT !.ev = <<>>] = once
              /\ lock(once).ev = LockOnly
              /\ once.lockState = Locked /\ once.lastUnlocked = 0
              /\ once.lockedLed = 1 /\ once.unlockedLed = 0)

\* C18 witness: lock() was called on an open lock in update mode; the history
\* still has its entry.
C18_Witness ==
    /\ events = LockOnly
    /\ lockState = Locked
    /\ lastUnlocked = 0
    /\ unlockLog # <<>>
    /\ unlockTimes[unlockIndex] = unlockLog[Len(unlockLog)]
    /\ multipurposePin.lastState = 1 /\ ~multipurposePin.armed

\* C19: after construction and after every operation the locked output is
\* high exactly when the base state is Locked, and the unlocked output is high
\* exactly when it is not.
C19_OutputsFollowState ==
    /\ lockedLed = 1 <=> Base(lockState) = Locked
    /\ unlockedLed = 1 <=> Base(lockState) # Locked
    /\ lockedLed \in {0, 1} /\ unlockedLed \in {0, 1}
    /\ isLocked(lockState) <=> Base(lockState) = Locked

\* C19 witness: the timeout handler has blinked the locked output on an open
\* lock and set the flag; the outputs are those of an open lock.
C19_Witness ==
    /\ On(events, "timeout", MpCfg.pin) # {}
    /\ InUpdateSecretMode(lockState)
    /\ Base(lockState) = Unlocked
    /\ lockedLed = 0
    /\ unlockedLed = 1

\* C20: the unlock history, its ring and its write index change only in a
\* step from Locked to a state that is not Locked, by one entry; an override
\* press handled on an open lock makes the state ManuallyOverridden and sets
\* lastUnlocked to the handler's time with the history, the ring and the index
\* unchanged; the write index is always in 0..MAX_UNLOCK_TIMES - 1.
C20_HistoryOnlyFromLocked ==
    /\ [][ /\ (unlockLog' # unlockLog \/ unlockIndex' # unlockIndex
                 \/ unlockTimes' # unlockTimes) =>
                /\ isLocked(lockState)
                /\ ~isLocked(lockState')
                /\ OneEntryAppended
           /\ \A j \in OverrideToggles(events', 1) :
                ~isLocked(lockState) =>
                    /\ events'[j + 1].kind = "stateCallback"
                    /\ events'[j + 1].val = ManuallyOverridden
                    /\ Base(lockState') = ManuallyOverridden
                    /\ lastUnlocked' = OverrideHandledAt(events')
                    /\ UNCHANGED <<unlockLog, unlockIndex, unlockTimes>> ]_vars
    /\ [](unlockIndex \in 0..(MAX_UNLOCK_TIMES - 1))

\* C20 witness: the override was pressed on a lock that a correct code had
\* opened: the state is ManuallyOverridden, lastUnlocked is later than the
\* latest entry of the history.
C20_Witness ==
    /\ OverrideToggles(events, 1) # {}
    /\ lockState = ManuallyOverridden
    /\ unlockLog # <<>>
    /\ lastUnlocked > unlockLog[Len(unlockLog)]
    /\ lastUnlocked = OverrideHandledAt(events)
    /\ unlockTimes[unlockIndex] = unlockLog[Len(unlockLog)]

\* the write index has wrapped
C20_IndexWrapped == Len(unlockLog) > MAX_UNLOCK_TIMES /\ unlockIndex = 1

\* the writes of the secret to the flash among ev
SecretWritesIn(ev) == {i \in 1..Len(ev) : ev[i].kind = "secretWrite"}

\* C21: every state change that is not the timeout handler's is to a base
\* state with the update flag clear. A poll whose re-lock condition holds and
\* an explicit lock() end in exactly Locked, also from a state with the flag;
\* an override press is followed by exactly ManuallyOverridden; the re-lock
\* that cancels the update mode of an open lock writes no secret. With the
\* override low and the loop running, an open lock in update mode eventually
\* has the flag clear.
C21_TransitionDropsFlag ==
    /\ [][ /\ \A j \in 1..Len(events') :
                (events'[j].kind = "stateCallback"
                   /\ (j = 1 \/ events'[j - 1].kind # "timeout")) =>
                    events'[j].val \in {Locked, Unlocked, ManuallyOverridden}
           /\ On(events', "read", OverrideCfg.pin) # {} =>
                LET released == OverrideToggles(events', 0) # {}
                    since == IF released THEN OverrideHandledAt(events') ELSE lastUnlocked
                IN  (overridePin'.lastState = 0 /\ ~isLocked(lockState)
                       /\ now' - since >= DEFAULT_UNLOCK_TIME_MS) =>
                        /\ lockState' = Locked
                        /\ secret_code' = secret_code
                        /\ SecretWritesIn(events') = {}
           /\ (events' # <<>> /\ On(events', "read", OverrideCfg.pin) = {}
                 /\ Calls(events') = {}) =>
                lockState' = Locked
           /\ \A j \in OverrideToggles(events', 1) :
                /\ events'[j + 1].kind = "stateCallback"
                /\ events'[j + 1].val = ManuallyOverridden
                /\ On(events', "timeout", MpCfg.pin) = {} =>
                     lockState' = ManuallyOverridden ]_vars
    /\ []( (initialised /\ InUpdateSecretMode(lockState) /\ ~isLocked(lockState)
              /\ overridePin.lastState = 0)
             => <>(~InUpdateSecretMode(lockState) \/ overridePin.lastState # 0) )

\* C21 witness: the lock was opened by code, the button's timeout set the
\* flag in an earlier poll, the override was never touched, and this poll's
\* re-lock left exactly Locked.
C21_Witness ==
    /\ On(events, "read", OverrideCfg.pin) # {}
    /\ On(events, "timeout", MpCfg.pin) = {}
    /\ LockCalls(events) # {}
    /\ lockState = Locked
    /\ multipurposePin = [lastState |-> 1, lastChangeMs |-> 0, armed |-> FALSE]
    /\ overridePin = [lastState |-> 0, lastChangeMs |-> 0, armed |-> FALSE]
    /\ unlockLog # <<>>
    /\ unlockLog[Len(unlockLog)] <= SECRET_CODE_DELAY_MS

\* the override was pressed on an open lock in update mode: the flag is gone
C21_PressDropsFlag ==
    /\ OverrideToggles(events, 1) # {}
    /\ lockState = ManuallyOverridden
    /\ multipurposePin.lastState = 1 /\ ~multipurposePin.armed
    /\ On(events, "timeout", MpCfg.pin) = {}
    /\ unlockLog # <<>>
    /\ lastUnlocked > unlockLog[Len(unlockLog)]

====
